---- MODULE Spec2Model ----
(***************************************************************************)
(* Commitment lifecycle engine: the commitment_core contract together with *)
(* the commitment_nft certificate contract it settles against.             *)
(*                                                                         *)
(* A contract call runs inside a host transaction: a failing call (a       *)
(* `fail`, a panic, a failed cross-contract call) discards every write the *)
(* call made.  External calls made by settle are separate steps so that a  *)
(* callee can call back into the contract while the call is in flight.     *)
(***************************************************************************)
EXTENDS Integers, Sequences, FiniteSets, TLC

\* ------------------------------------------------------------------ bounds
MaxCommitments == 2

\* --------------------------------------------------------------- constants
SECONDS_PER_DAY == 86400

NoAddr == "none"
NoId == <<>>
NoEvents == <<>>
OK == "ok"

Owners == {"alice", "bob"}
Assets == {"usdc", "xlm"}
Admins == {"admin"}
Callers == Admins \cup {"alice"}
\* the repository's certificate contract, or any other contract address
NftContracts == {"commitment_nft", "other"}
Amounts == {0, 3}
Values == {0, 5}
Pools == {"pool"}
\* contracts the admin may put on the whitelist
Allocators == {"strategy"}

ValidTypes == {"safe", "balanced", "aggressive"}

GoodRules ==
    [duration_days |-> 1, max_loss_percent |-> 10, commitment_type |-> "safe",
     early_exit_penalty |-> 5, min_fee_threshold |-> 0]

RuleInputs ==
    { GoodRules,
      [GoodRules EXCEPT !.duration_days = 0],
      [GoodRules EXCEPT !.max_loss_percent = 101],
      [GoodRules EXCEPT !.commitment_type = "risky"] }

\* ledger times the environment moves through: the start, the last second of the
\* first day and the day boundary
TimePoints == {0, SECONDS_PER_DAY - 1, SECONDS_PER_DAY}
\* the same, and a time after the day boundary
LateTimePoints == TimePoints \cup {SECONDS_PER_DAY + 1}

VARIABLES
    core,   \* storage of the commitment_core contract
    nft,    \* storage of the commitment_nft contract
    ext,    \* effects taken in external collaborators (token ledger, other issuer)
    now,    \* ledger timestamp
    pc,     \* position of the in-flight settle call, "idle" when none
    frame,  \* the in-flight call: its arguments and the storage at its start
    last    \* outcome of the last step

vars == <<core, nft, ext, now, pc, frame, last>>

World == [core |-> core, nft |-> nft, ext |-> ext]

\* ------------------------------------------------------- commitment ids
RECURSIVE DigitsReversed(_)
DigitsReversed(n) ==
    IF n = 0 THEN <<>> ELSE <<(n % 10) + 48>> \o DigitsReversed(n \div 10)

Reverse(s) == [j \in 1..Len(s) |-> s[Len(s) + 1 - j]]

\* variant: the digits are copied out in the order the loop produced them
generate_commitment_id_digits_not_reversed(counter) ==
    <<99, 95>> \o (IF counter = 0 THEN <<48>> ELSE DigitsReversed(counter))

\* "c_" followed by the decimal digits of the counter, as bytes
generate_commitment_id(counter) ==
    <<99, 95>> \o (IF counter = 0 THEN <<48>> ELSE Reverse(DigitsReversed(counter)))

Ids == { generate_commitment_id(n) : n \in 0..MaxCommitments }

\* largest counter whose id is generated on its own
MaxCounter == 120

\* ------------------------------------------------------ storage helpers
read_commitment(c, commitment_id) ==
    IF commitment_id \in DOMAIN c.Commitment THEN c.Commitment[commitment_id] ELSE NoId

has_commitment(c, commitment_id) == commitment_id \in DOMAIN c.Commitment

\* variant: a store that keeps only the record it writes
set_commitment_drops_others(c, commitment) ==
    [c EXCEPT !.Commitment = [k \in {commitment.commitment_id} |-> commitment]]

set_commitment(c, commitment) ==
    [c EXCEPT !.Commitment =
        [k \in DOMAIN @ \cup {commitment.commitment_id} |->
            IF k = commitment.commitment_id THEN commitment ELSE @[k]]]

require_no_reentrancy(c) == ~c.ReentrancyGuard

set_reentrancy_guard(c, v) == [c EXCEPT !.ReentrancyGuard = v]

\* a failing call: the host discards every write of the call
fail(w, err) == [err |-> err, w |-> w, id |-> NoId, events |-> NoEvents]

\* variant: validation that rejects a loss limit of exactly 100
validate_rules_rejects_full_loss(rules) ==
    IF rules.duration_days = 0 THEN "InvalidDuration"
    ELSE IF rules.max_loss_percent >= 100 THEN "InvalidMaxLoss"
    ELSE IF rules.commitment_type \notin ValidTypes THEN "InvalidCommitmentType"
    ELSE OK

\* ------------------------------------------------------ rule validation
validate_rules(rules) ==
    IF rules.duration_days = 0 THEN "InvalidDuration"
    ELSE IF rules.max_loss_percent > 100 THEN "InvalidMaxLoss"
    ELSE IF rules.commitment_type \notin ValidTypes THEN "InvalidCommitmentType"
    ELSE OK

calculate_expiration(t, duration_days) == t + duration_days * SECONDS_PER_DAY

\* ------------------------------------------------- external collaborators
\* transfer_assets is an empty stub: nothing moves
transfer_assets(x, commitment_id, owner, asset, amount) == x

\* call_nft_mint is a stub: the certificate contract is not called
call_nft_mint(n) == [nft |-> n, token_id |-> 0]

\* variant: a transfer that moves nothing
token_transfer_moves_nothing(x, commitment_id, to, asset, amount) == x

\* token_client.transfer(vault -> owner) taking effect in the token ledger
token_transfer(x, commitment_id, to, asset, amount) ==
    [x EXCEPT !.payouts = @ \cup
        {[id |-> commitment_id, to |-> to, asset |-> asset, amount |-> amount]}]

\* variant: a settle that does not look at the expiry
nft_settle_any_time(n, token_id, t) ==
    IF token_id \notin DOMAIN n.NFT THEN [err |-> "TokenNotFound", nft |-> n]
    ELSE IF ~n.NFT[token_id].is_active THEN [err |-> "AlreadySettled", nft |-> n]
    ELSE [err |-> OK,
          nft |-> [n EXCEPT !.NFT[token_id].is_active = FALSE,
                            !.ReentrancyGuard = FALSE]]

\* variant: a settle that does not look at whether the token is still active
nft_settle_settles_again(n, token_id, t) ==
    IF token_id \notin DOMAIN n.NFT THEN [err |-> "TokenNotFound", nft |-> n]
    ELSE IF t < n.NFT[token_id].metadata.expires_at THEN [err |-> "NotExpired", nft |-> n]
    ELSE [err |-> OK,
          nft |-> [n EXCEPT !.NFT[token_id].is_active = FALSE,
                            !.ReentrancyGuard = FALSE]]

\* commitment_nft settle(token_id)
nft_settle(n, token_id, t) ==
    IF token_id \notin DOMAIN n.NFT THEN [err |-> "TokenNotFound", nft |-> n]
    ELSE IF ~n.NFT[token_id].is_active THEN [err |-> "AlreadySettled", nft |-> n]
    ELSE IF t < n.NFT[token_id].metadata.expires_at THEN [err |-> "NotExpired", nft |-> n]
    ELSE [err |-> OK,
          nft |-> [n EXCEPT !.NFT[token_id].is_active = FALSE,
                            !.ReentrancyGuard = FALSE]]

\* ------------------------------------------------------- access control
\* AccessControl::require_authorized: the admin or a whitelisted contract
require_authorized(c, caller) ==
    IF c.Admin = NoAddr THEN "NotInitialized"
    ELSE IF caller # c.Admin /\ caller \notin c.AuthorizedContracts THEN "Unauthorized"
    ELSE OK

\* AccessControl::add_authorized_contract, by the admin
add_authorized_contract(c, caller, contract_address) ==
    IF c.Admin = NoAddr THEN [err |-> "NotInitialized", c |-> c]
    ELSE IF caller # c.Admin THEN [err |-> "Unauthorized", c |-> c]
    ELSE [err |-> OK, c |-> [c EXCEPT !.AuthorizedContracts = @ \cup {contract_address}]]

\* AccessControl::remove_authorized_contract, by the admin
remove_authorized_contract(c, caller, contract_address) ==
    IF c.Admin = NoAddr THEN [err |-> "NotInitialized", c |-> c]
    ELSE IF caller # c.Admin THEN [err |-> "Unauthorized", c |-> c]
    ELSE [err |-> OK, c |-> [c EXCEPT !.AuthorizedContracts = @ \ {contract_address}]]

\* ------------------------------------------------- certificate contract
\* commitment_nft initialize(admin)
nft_initialize(n, admin) ==
    IF n.Admin # NoAddr THEN [err |-> "AlreadyInitialized", nft |-> n]
    ELSE [err |-> OK, nft |-> [n EXCEPT !.Admin = admin, !.TokenCounter = 0]]

is_valid_commitment_type(commitment_type) ==
    commitment_type = "safe" \/ commitment_type = "balanced" \/ commitment_type = "aggressive"

\* the parameter checks of mint, in the order of the code
mint_checks(n, caller, duration_days, max_loss_percent, commitment_type, initial_amount) ==
    IF require_authorized(n, caller) # OK THEN require_authorized(n, caller)
    ELSE IF duration_days = 0 THEN "InvalidDuration"
    ELSE IF max_loss_percent > 100 THEN "InvalidMaxLoss"
    ELSE IF ~is_valid_commitment_type(commitment_type) THEN "InvalidCommitmentType"
    ELSE IF initial_amount <= 0 THEN "InvalidAmount"
    ELSE OK

\* commitment_nft mint: the next token id, the certificate, the owner's balance
\* and token list, the list of all tokens
mint(n, caller, owner, commitment_id, duration_days, max_loss_percent, commitment_type, initial_amount, asset_address, t) ==
    LET err == mint_checks(n, caller, duration_days, max_loss_percent, commitment_type,
                           initial_amount)
        token_id == n.TokenCounter + 1
        created_at == t
        expires_at == created_at + duration_days * SECONDS_PER_DAY
        metadata == [commitment_id |-> commitment_id,
                     duration_days |-> duration_days,
                     max_loss_percent |-> max_loss_percent,
                     commitment_type |-> commitment_type,
                     created_at |-> created_at,
                     expires_at |-> expires_at,
                     initial_amount |-> initial_amount,
                     asset_address |-> asset_address]
        token == [owner |-> owner, token_id |-> token_id, metadata |-> metadata,
                  is_active |-> TRUE, early_exit_penalty |-> 0]
    IN IF err # OK
       THEN [err |-> err, nft |-> n, token_id |-> NoId, events |-> NoEvents]
       ELSE [err |-> OK, token_id |-> token_id,
             events |-> <<[topic |-> "Mint", token_id |-> token_id, owner |-> owner,
                           commitment_id |-> commitment_id, t |-> t]>>,
             nft |-> [n EXCEPT
                        !.TokenCounter = token_id,
                        !.NFT = [k \in DOMAIN @ \cup {token_id} |->
                                    IF k = token_id THEN token ELSE @[k]],
                        !.OwnerBalance[owner] = @ + 1,
                        !.OwnerTokens[owner] = Append(@, token_id),
                        !.TokenIds = Append(@, token_id),
                        !.ReentrancyGuard = FALSE]]

\* the list without the given token, in the order of the list
RECURSIVE WithoutToken(_, _)
WithoutToken(tokens, token_id) ==
    IF tokens = <<>> THEN <<>>
    ELSE IF Head(tokens) = token_id THEN WithoutToken(Tail(tokens), token_id)
    ELSE <<Head(tokens)>> \o WithoutToken(Tail(tokens), token_id)

\* variant: a transfer that does not look at who owns the token
transfer_any_sender(n, from, to, token_id) ==
    IF token_id \notin DOMAIN n.NFT THEN [err |-> "TokenNotFound", nft |-> n]
    ELSE LET owned == [n EXCEPT !.NFT[token_id].owner = to]
             debited == IF owned.OwnerBalance[from] > 0
                        THEN [owned EXCEPT !.OwnerBalance[from] = @ - 1]
                        ELSE owned
             credited == [debited EXCEPT !.OwnerBalance[to] = @ + 1]
             removed == [credited EXCEPT !.OwnerTokens[from] = WithoutToken(@, token_id)]
             added == [removed EXCEPT !.OwnerTokens[to] = Append(@, token_id)]
         IN [err |-> OK, nft |-> [added EXCEPT !.ReentrancyGuard = FALSE]]

\* variant: a transfer that credits the recipient without debiting the sender
transfer_no_debit(n, from, to, token_id) ==
    IF token_id \notin DOMAIN n.NFT THEN [err |-> "TokenNotFound", nft |-> n]
    ELSE IF n.NFT[token_id].owner # from THEN [err |-> "NotOwner", nft |-> n]
    ELSE LET owned == [n EXCEPT !.NFT[token_id].owner = to]
             credited == [owned EXCEPT !.OwnerBalance[to] = @ + 1]
             removed == [credited EXCEPT !.OwnerTokens[from] = WithoutToken(@, token_id)]
             added == [removed EXCEPT !.OwnerTokens[to] = Append(@, token_id)]
         IN [err |-> OK, nft |-> [added EXCEPT !.ReentrancyGuard = FALSE]]

\* commitment_nft transfer: each write is read back by the steps after it, so a
\* transfer from an owner to itself first debits and then credits the same entry
transfer(n, from, to, token_id) ==
    IF token_id \notin DOMAIN n.NFT THEN [err |-> "TokenNotFound", nft |-> n]
    ELSE IF n.NFT[token_id].owner # from THEN [err |-> "NotOwner", nft |-> n]
    ELSE LET owned == [n EXCEPT !.NFT[token_id].owner = to]
             debited == IF owned.OwnerBalance[from] > 0
                        THEN [owned EXCEPT !.OwnerBalance[from] = @ - 1]
                        ELSE owned
             credited == [debited EXCEPT !.OwnerBalance[to] = @ + 1]
             removed == [credited EXCEPT !.OwnerTokens[from] = WithoutToken(@, token_id)]
             added == [removed EXCEPT !.OwnerTokens[to] = Append(@, token_id)]
         IN [err |-> OK, nft |-> [added EXCEPT !.ReentrancyGuard = FALSE]]

\* the certificates on the owner's token list that are in storage
RECURSIVE StoredTokens(_, _)
StoredTokens(n, tokens) ==
    IF tokens = <<>> THEN <<>>
    ELSE IF Head(tokens) \in DOMAIN n.NFT
         THEN <<n.NFT[Head(tokens)]>> \o StoredTokens(n, Tail(tokens))
         ELSE StoredTokens(n, Tail(tokens))

get_nfts_by_owner(n, owner) == StoredTokens(n, n.OwnerTokens[owner])

\* commitment_nft set_core_contract, signed by the admin
set_core_contract(n, core_contract) ==
    IF n.Admin = NoAddr THEN [err |-> "NotInitialized", nft |-> n]
    ELSE [err |-> OK, nft |-> [n EXCEPT !.CoreContract = core_contract]]

is_active(n, token_id) == n.NFT[token_id].is_active

total_supply(n) == n.TokenCounter

balance_of(n, owner) == n.OwnerBalance[owner]

\* variant: an initialize that can be repeated
initialize_repeatable(w, admin, nft_contract) ==
    [err |-> OK, id |-> NoId,
     w |-> [w EXCEPT !.core.Admin = admin,
                     !.core.NftContract = nft_contract,
                     !.core.TotalCommitments = 0,
                     !.core.TotalValueLocked = 0]]

\* core initialize(admin, nft_contract)
initialize(w, admin, nft_contract) ==
    IF w.core.Admin # NoAddr THEN fail(w, "AlreadyInitialized")
    ELSE [err |-> OK, id |-> NoId,
          w |-> [w EXCEPT !.core.Admin = admin,
                          !.core.NftContract = nft_contract,
                          !.core.TotalCommitments = 0,
                          !.core.TotalValueLocked = 0]]

\* variant: Checks phase that does not look at the reentrancy guard
create_checks_no_guard(c, amount, rules, limited, supported) ==
    IF c.EmergencyMode THEN "EmergencyMode"
    ELSE IF limited THEN "RateLimitExceeded"
    ELSE IF amount <= 0 THEN "InvalidAmount"
    ELSE IF validate_rules(rules) # OK THEN validate_rules(rules)
    ELSE IF ~supported THEN "AssetNotSupported"
    ELSE IF c.NftContract = NoAddr THEN "NotInitialized"
    ELSE OK

\* variant: Checks phase that does not validate the amount
create_checks_no_amount(c, amount, rules, limited, supported) ==
    IF c.ReentrancyGuard THEN "ReentrancyDetected"
    ELSE IF c.EmergencyMode THEN "EmergencyMode"
    ELSE IF limited THEN "RateLimitExceeded"
    ELSE IF validate_rules(rules) # OK THEN validate_rules(rules)
    ELSE IF ~supported THEN "AssetNotSupported"
    ELSE IF c.NftContract = NoAddr THEN "NotInitialized"
    ELSE OK

\* variant: Checks phase that does not look at emergency mode
create_checks_no_emergency(c, amount, rules, limited, supported) ==
    IF c.ReentrancyGuard THEN "ReentrancyDetected"
    ELSE IF limited THEN "RateLimitExceeded"
    ELSE IF amount <= 0 THEN "InvalidAmount"
    ELSE IF validate_rules(rules) # OK THEN validate_rules(rules)
    ELSE IF ~supported THEN "AssetNotSupported"
    ELSE IF c.NftContract = NoAddr THEN "NotInitialized"
    ELSE IF has_commitment(c, generate_commitment_id(c.TotalCommitments))
         THEN "InvalidStatus"
    ELSE OK

\* ------------------------------------------------------ create_commitment
\* the Checks phase, in the order of the code; OK when every check passes
create_checks(c, amount, rules, limited, supported) ==
    IF ~require_no_reentrancy(c) THEN "ReentrancyDetected"
    ELSE IF c.EmergencyMode THEN "EmergencyMode"
    ELSE IF limited THEN "RateLimitExceeded"
    ELSE IF amount <= 0 THEN "InvalidAmount"
    ELSE IF validate_rules(rules) # OK THEN validate_rules(rules)
    ELSE IF ~supported THEN "AssetNotSupported"
    ELSE IF c.NftContract = NoAddr THEN "NotInitialized"
    ELSE IF has_commitment(c, generate_commitment_id(c.TotalCommitments))
         THEN "InvalidStatus"
    ELSE OK

\* variant: a record whose expiry counts the duration in seconds, not days
new_commitment_expiry_in_seconds(commitment_id, owner, amount, asset_address, rules, t) ==
    [commitment_id |-> commitment_id,
     owner |-> owner,
     nft_token_id |-> 0,
     rules |-> rules,
     amount |-> amount,
     asset_address |-> asset_address,
     created_at |-> t,
     expires_at |-> t + rules.duration_days,
     current_value |-> amount,
     status |-> "active"]

\* the record create_commitment builds
new_commitment(commitment_id, owner, amount, asset_address, rules, t) ==
    [commitment_id |-> commitment_id,
     owner |-> owner,
     nft_token_id |-> 0,
     rules |-> rules,
     amount |-> amount,
     asset_address |-> asset_address,
     created_at |-> t,
     expires_at |-> calculate_expiration(t, rules.duration_days),
     current_value |-> amount,
     status |-> "active"]

\* variant: Effects phase that puts the new id at the head of the owner's list
create_effects_index_prepended(c, owner, amount, asset_address, rules, t) ==
    LET commitment_id == generate_commitment_id(c.TotalCommitments)
        stored == set_commitment(set_reentrancy_guard(c, TRUE),
                      new_commitment(commitment_id, owner, amount, asset_address, rules, t))
    IN [stored EXCEPT
            !.LastCommitmentId = commitment_id,
            !.OwnerCommitments[owner] = <<commitment_id>> \o @,
            !.TotalCommitments = @ + 1,
            !.TotalValueLocked = @ + amount,
            !.TotalValueLockedByAsset[asset_address] = @ + amount]

\* variant: Effects phase that leaves the commitment counter alone
create_effects_keeps_count(c, owner, amount, asset_address, rules, t) ==
    LET commitment_id == generate_commitment_id(c.TotalCommitments)
        stored == set_commitment(set_reentrancy_guard(c, TRUE),
                      new_commitment(commitment_id, owner, amount, asset_address, rules, t))
    IN [stored EXCEPT
            !.LastCommitmentId = commitment_id,
            !.OwnerCommitments[owner] = Append(@, commitment_id),
            !.TotalValueLocked = @ + amount,
            !.TotalValueLockedByAsset[asset_address] = @ + amount]

\* the Effects phase: record, last id, owner index, counters, per-asset TVL
create_effects(c, owner, amount, asset_address, rules, t) ==
    LET current_total == c.TotalCommitments
        current_tvl == c.TotalValueLocked
        commitment_id == generate_commitment_id(current_total)
        stored == set_commitment(set_reentrancy_guard(c, TRUE),
                      new_commitment(commitment_id, owner, amount, asset_address, rules, t))
    IN [stored EXCEPT
            !.LastCommitmentId = commitment_id,
            !.OwnerCommitments[owner] = Append(@, commitment_id),
            !.TotalCommitments = current_total + 1,
            !.TotalValueLocked = current_tvl + amount,
            !.TotalValueLockedByAsset[asset_address] = @ + amount]

\* after the interactions: patch the certificate id, clear the guard
create_finish(c, commitment_id, nft_token_id) ==
    set_reentrancy_guard(
        set_commitment(c, [c.Commitment[commitment_id] EXCEPT !.nft_token_id = nft_token_id]),
        FALSE)

create_commitment(w, owner, amount, asset_address, rules, limited, supported, t) ==
    LET err == create_checks(w.core, amount, rules, limited, supported)
        commitment_id == generate_commitment_id(w.core.TotalCommitments)
        effects == create_effects(w.core, owner, amount, asset_address, rules, t)
        moved == transfer_assets(w.ext, commitment_id, owner, asset_address, amount)
        minted == call_nft_mint(w.nft)
    IN IF err # OK THEN fail(w, err)
       ELSE [err |-> OK, id |-> commitment_id,
             events |-> <<[topic |-> "Created", id |-> commitment_id, owner |-> owner,
                           amount |-> amount, nft_token_id |-> minted.token_id, t |-> t]>>,
             w |-> [core |-> create_finish(effects, commitment_id, minted.token_id),
                    nft |-> minted.nft,
                    ext |-> moved]]

\* ------------------------------------------------------------------ settle
\* variant: Checks phase that does not look at the status
settle_checks_any_status(c, commitment_id, t) ==
    IF c.ReentrancyGuard THEN "ReentrancyDetected"
    ELSE IF c.EmergencyMode THEN "EmergencyMode"
    ELSE IF commitment_id \notin DOMAIN c.Commitment THEN "CommitmentNotFound"
    ELSE IF t < c.Commitment[commitment_id].expires_at THEN "NotExpired"
    ELSE OK

\* variant: Checks phase that does not look at the expiry
settle_checks_any_time(c, commitment_id, t) ==
    IF c.ReentrancyGuard THEN "ReentrancyDetected"
    ELSE IF c.EmergencyMode THEN "EmergencyMode"
    ELSE IF commitment_id \notin DOMAIN c.Commitment THEN "CommitmentNotFound"
    ELSE IF c.Commitment[commitment_id].status # "active" THEN "NotActive"
    ELSE OK

settle_checks(c, commitment_id, t) ==
    IF ~require_no_reentrancy(c) THEN "ReentrancyDetected"
    ELSE IF c.EmergencyMode THEN "EmergencyMode"
    ELSE IF ~has_commitment(c, commitment_id) THEN "CommitmentNotFound"
    ELSE IF t < c.Commitment[commitment_id].expires_at THEN "NotExpired"
    ELSE IF c.Commitment[commitment_id].status # "active" THEN "NotActive"
    ELSE OK

\* variant: Effects phase that leaves the per-asset value locked alone
settle_effects_keeps_asset_tvl(c, commitment_id) ==
    [c EXCEPT !.ReentrancyGuard = TRUE,
              !.Commitment[commitment_id].status = "settled",
              !.TotalValueLocked = @ - c.Commitment[commitment_id].current_value]

\* variant: Effects phase that leaves total value locked alone
settle_effects_keeps_tvl(c, commitment_id) ==
    [c EXCEPT !.ReentrancyGuard = TRUE,
              !.Commitment[commitment_id].status = "settled",
              !.TotalValueLockedByAsset[c.Commitment[commitment_id].asset_address] =
                    @ - c.Commitment[commitment_id].current_value]

\* variant: Effects phase that also zeroes the value of the settled record
settle_effects_clears_value(c, commitment_id) ==
    LET commitment == c.Commitment[commitment_id]
        settlement_amount == commitment.current_value
        stored == set_commitment(set_reentrancy_guard(c, TRUE),
                      [commitment EXCEPT !.status = "settled", !.current_value = 0])
    IN [stored EXCEPT
            !.TotalValueLocked = @ - settlement_amount,
            !.TotalValueLockedByAsset[commitment.asset_address] = @ - settlement_amount]

\* variant: Effects phase that leaves the status write for after the interactions
settle_effects_status_deferred(c, commitment_id) ==
    LET commitment == c.Commitment[commitment_id]
        settlement_amount == commitment.current_value
    IN [set_reentrancy_guard(c, TRUE) EXCEPT
            !.TotalValueLocked = @ - settlement_amount,
            !.TotalValueLockedByAsset[commitment.asset_address] = @ - settlement_amount]

\* the Effects phase: status, total value locked, per-asset TVL
settle_effects(c, commitment_id) ==
    LET commitment == c.Commitment[commitment_id]
        settlement_amount == commitment.current_value
        stored == set_commitment(set_reentrancy_guard(c, TRUE),
                      [commitment EXCEPT !.status = "settled"])
    IN [stored EXCEPT
            !.TotalValueLocked = @ - settlement_amount,
            !.TotalValueLockedByAsset[commitment.asset_address] = @ - settlement_amount]

\* the certificate issuer's settle, as invoke_contract sees it: the repository's
\* certificate contract, or another contract whose answer is `answer`
issuer_settle(w, token_id, t, answer) ==
    IF w.core.NftContract = "commitment_nft"
    THEN nft_settle(w.nft, token_id, t)
    ELSE [err |-> IF answer THEN OK ELSE "Rejected", nft |-> w.nft]

\* variant: a settle that returns with the guard still held
settle_finish_keeps_guard(c) == c

settle_finish(c) == set_reentrancy_guard(c, FALSE)

\* ------------------------------------------------------ violation checks
\* integer division truncating toward zero, as Rust's `/` on i128
TruncDiv(a, b) == IF a >= 0 THEN a \div b ELSE -((-a) \div b)

\* i128 as the model holds it: the width is scaled down to 24 bits, so that a product
\* with 100 of any value of the width stays within the model checker's integers
MaxInt == 2^23 - 1
MinInt == -(2^23)
Fits(x) == MinInt <= x /\ x <= MaxInt
Wrap(x) == ((x - MinInt) % 2^24) + MinInt

\* SafeMath::loss_percent
loss_percent(amount, current_value) == TruncDiv((amount - current_value) * 100, amount)

\* variant: a loss equal to the limit counts as a violation
check_violations_loss_inclusive(c, commitment_id, t) ==
    IF read_commitment(c, commitment_id) = NoId
    THEN [err |-> "CommitmentNotFound", ret |-> FALSE, events |-> NoEvents, c |-> c]
    ELSE LET commitment == read_commitment(c, commitment_id)
             loss == IF commitment.amount > 0
                     THEN loss_percent(commitment.amount, commitment.current_value)
                     ELSE 0
             max_loss == commitment.rules.max_loss_percent
             violated == loss >= max_loss \/ t >= commitment.expires_at
         IN IF commitment.status # "active"
            THEN [err |-> OK, ret |-> FALSE, events |-> NoEvents, c |-> c]
            ELSE [err |-> OK, ret |-> violated,
                  c |-> c,
                  events |-> IF violated
                             THEN <<[topic |-> "Violated", id |-> commitment_id, t |-> t]>>
                             ELSE NoEvents]

\* variant: the status is not looked at
check_violations_any_status(c, commitment_id, t) ==
    IF read_commitment(c, commitment_id) = NoId
    THEN [err |-> "CommitmentNotFound", ret |-> FALSE, events |-> NoEvents, c |-> c]
    ELSE LET commitment == read_commitment(c, commitment_id)
             loss == IF commitment.amount > 0
                     THEN loss_percent(commitment.amount, commitment.current_value)
                     ELSE 0
             max_loss == commitment.rules.max_loss_percent
             violated == loss > max_loss \/ t >= commitment.expires_at
         IN [err |-> OK, ret |-> violated, c |-> c,
             events |-> IF violated
                        THEN <<[topic |-> "Violated", id |-> commitment_id, t |-> t]>>
                        ELSE NoEvents]

\* variant: a violation found is written into the status
check_violations_marks_violated(c, commitment_id, t) ==
    IF read_commitment(c, commitment_id) = NoId
    THEN [err |-> "CommitmentNotFound", ret |-> FALSE, events |-> NoEvents, c |-> c]
    ELSE LET commitment == read_commitment(c, commitment_id)
             loss == IF commitment.amount > 0
                     THEN loss_percent(commitment.amount, commitment.current_value)
                     ELSE 0
             max_loss == commitment.rules.max_loss_percent
             violated == loss > max_loss \/ t >= commitment.expires_at
         IN IF commitment.status # "active"
            THEN [err |-> OK, ret |-> FALSE, events |-> NoEvents, c |-> c]
            ELSE [err |-> OK, ret |-> violated,
                  c |-> IF violated
                          THEN [c EXCEPT !.Commitment[commitment_id].status = "violated"]
                          ELSE c,
                  events |-> IF violated
                             THEN <<[topic |-> "Violated", id |-> commitment_id, t |-> t]>>
                             ELSE NoEvents]

\* the call's error, its return value, the events it publishes and the storage it leaves
\* variant: a check that reports an event for every active commitment it looks at
check_violations_always_reports(c, commitment_id, t) ==
    IF read_commitment(c, commitment_id) = NoId
    THEN [err |-> "CommitmentNotFound", ret |-> FALSE, events |-> NoEvents, c |-> c]
    ELSE LET commitment == read_commitment(c, commitment_id)
             loss == IF commitment.amount > 0
                     THEN loss_percent(commitment.amount, commitment.current_value)
                     ELSE 0
             max_loss == commitment.rules.max_loss_percent
             violated == loss > max_loss \/ t >= commitment.expires_at
         IN IF commitment.status # "active"
            THEN [err |-> OK, ret |-> FALSE, events |-> NoEvents, c |-> c]
            ELSE [err |-> OK, ret |-> violated, c |-> c,
                  events |-> <<[topic |-> "Violated", id |-> commitment_id, t |-> t]>>]

check_violations(c, commitment_id, t) ==
    IF read_commitment(c, commitment_id) = NoId
    THEN [err |-> "CommitmentNotFound", ret |-> FALSE, events |-> NoEvents, c |-> c]
    ELSE LET commitment == read_commitment(c, commitment_id)
             loss == IF commitment.amount > 0
                     THEN loss_percent(commitment.amount, commitment.current_value)
                     ELSE 0
             max_loss == commitment.rules.max_loss_percent
             loss_violated == loss > max_loss
             duration_violated == t >= commitment.expires_at
             violated == loss_violated \/ duration_violated
         IN IF commitment.status # "active"
            THEN [err |-> OK, ret |-> FALSE, events |-> NoEvents, c |-> c]
            ELSE [err |-> OK, ret |-> violated, c |-> c,
                  events |-> IF violated
                             THEN <<[topic |-> "Violated", id |-> commitment_id, t |-> t]>>
                             ELSE NoEvents]

\* variant: get_violation_details whose quotient is rounded down
get_violation_details_rounds_down(c, commitment_id, t, overflow_checks) ==
    IF read_commitment(c, commitment_id) = NoId
    THEN [err |-> "CommitmentNotFound", ret |-> NoId, c |-> c]
    ELSE LET commitment == read_commitment(c, commitment_id)
             loss_amount == Wrap(commitment.amount - commitment.current_value)
             overflows ==
                \/ ~Fits(commitment.amount - commitment.current_value)
                \/ commitment.amount > 0 /\ ~Fits(loss_amount * 100)
             loss == IF commitment.amount > 0
                     THEN Wrap(loss_amount * 100) \div commitment.amount
                     ELSE 0
             max_loss == commitment.rules.max_loss_percent
             loss_violated == loss > max_loss
             duration_violated == t >= commitment.expires_at
             time_remaining == IF commitment.expires_at > t
                               THEN commitment.expires_at - t ELSE 0
         IN IF overflows /\ overflow_checks
            THEN [err |-> "Trap", ret |-> NoId, c |-> c]
            ELSE [err |-> OK, c |-> c,
                  ret |-> [has_violations |-> loss_violated \/ duration_violated,
                           loss_violated |-> loss_violated,
                           duration_violated |-> duration_violated,
                           loss_percent |-> loss,
                           time_remaining |-> time_remaining]]

\* variant: get_violation_details that counts a commitment without principal as lost
get_violation_details_zero_principal_lost(c, commitment_id, t, overflow_checks) ==
    IF read_commitment(c, commitment_id) = NoId
    THEN [err |-> "CommitmentNotFound", ret |-> NoId, c |-> c]
    ELSE LET commitment == read_commitment(c, commitment_id)
             loss_amount == Wrap(commitment.amount - commitment.current_value)
             overflows ==
                \/ ~Fits(commitment.amount - commitment.current_value)
                \/ commitment.amount > 0 /\ ~Fits(loss_amount * 100)
             loss == IF commitment.amount > 0
                     THEN TruncDiv(Wrap(loss_amount * 100), commitment.amount)
                     ELSE 100
             max_loss == commitment.rules.max_loss_percent
             loss_violated == loss > max_loss
             duration_violated == t >= commitment.expires_at
             time_remaining == IF commitment.expires_at > t
                               THEN commitment.expires_at - t ELSE 0
         IN IF overflows /\ overflow_checks
            THEN [err |-> "Trap", ret |-> NoId, c |-> c]
            ELSE [err |-> OK, c |-> c,
                  ret |-> [has_violations |-> loss_violated \/ duration_violated,
                           loss_violated |-> loss_violated,
                           duration_violated |-> duration_violated,
                           loss_percent |-> loss,
                           time_remaining |-> time_remaining]]

\* variant: get_violation_details whose time_remaining is a plain subtraction
get_violation_details_plain_subtraction(c, commitment_id, t, overflow_checks) ==
    IF read_commitment(c, commitment_id) = NoId
    THEN [err |-> "CommitmentNotFound", ret |-> NoId, c |-> c]
    ELSE LET commitment == read_commitment(c, commitment_id)
             loss_amount == Wrap(commitment.amount - commitment.current_value)
             overflows ==
                \/ ~Fits(commitment.amount - commitment.current_value)
                \/ commitment.amount > 0 /\ ~Fits(loss_amount * 100)
             loss == IF commitment.amount > 0
                     THEN TruncDiv(Wrap(loss_amount * 100), commitment.amount)
                     ELSE 0
             max_loss == commitment.rules.max_loss_percent
             loss_violated == loss > max_loss
             duration_violated == t >= commitment.expires_at
             time_remaining == commitment.expires_at - t
         IN IF overflows /\ overflow_checks
            THEN [err |-> "Trap", ret |-> NoId, c |-> c]
            ELSE [err |-> OK, c |-> c,
                  ret |-> [has_violations |-> loss_violated \/ duration_violated,
                           loss_violated |-> loss_violated,
                           duration_violated |-> duration_violated,
                           loss_percent |-> loss,
                           time_remaining |-> time_remaining]]

\* (has_violations, loss_violated, duration_violated, loss_percent, time_remaining);
\* time_remaining is expires_at.saturating_sub(current_time). An i128 operation that
\* overflows traps when the build checks overflow and wraps when it does not.
get_violation_details(c, commitment_id, t, overflow_checks) ==
    IF read_commitment(c, commitment_id) = NoId
    THEN [err |-> "CommitmentNotFound", ret |-> NoId, c |-> c]
    ELSE LET commitment == read_commitment(c, commitment_id)
             loss_amount == Wrap(commitment.amount - commitment.current_value)
             overflows ==
                \/ ~Fits(commitment.amount - commitment.current_value)
                \/ commitment.amount > 0 /\ ~Fits(loss_amount * 100)
             loss == IF commitment.amount > 0
                     THEN TruncDiv(Wrap(loss_amount * 100), commitment.amount)
                     ELSE 0
             max_loss == commitment.rules.max_loss_percent
             loss_violated == loss > max_loss
             duration_violated == t >= commitment.expires_at
             time_remaining == IF commitment.expires_at > t
                               THEN commitment.expires_at - t ELSE 0
         IN IF overflows /\ overflow_checks
            THEN [err |-> "Trap", ret |-> NoId, c |-> c]
            ELSE [err |-> OK, c |-> c,
                  ret |-> [has_violations |-> loss_violated \/ duration_violated,
                           loss_violated |-> loss_violated,
                           duration_violated |-> duration_violated,
                           loss_percent |-> loss,
                           time_remaining |-> time_remaining]]

\* variant: a value update that does not check its caller
update_value_unchecked(w, caller, commitment_id, new_value) ==
    [err |-> OK, w |-> w, id |-> NoId]

\* variant: an allocation that does not check its caller
allocate_unchecked(w, caller, commitment_id, target_pool, amount) ==
    [err |-> OK, w |-> w, id |-> NoId]

\* get_commitment: the record under the id, else the record under the last stored
\* id, else CommitmentNotFound
get_commitment(c, commitment_id) ==
    IF read_commitment(c, commitment_id) # NoId
    THEN [err |-> OK, ret |-> read_commitment(c, commitment_id)]
    ELSE IF c.LastCommitmentId # NoId
    THEN IF read_commitment(c, c.LastCommitmentId) # NoId
         THEN [err |-> OK, ret |-> read_commitment(c, c.LastCommitmentId)]
         ELSE [err |-> "Trap", ret |-> NoId]
    ELSE [err |-> "CommitmentNotFound", ret |-> NoId]

\* variant: an early exit that marks the commitment
early_exit_marks_exited(w, commitment_id, caller) ==
    IF has_commitment(w.core, commitment_id)
    THEN [err |-> OK, id |-> NoId,
          w |-> [w EXCEPT !.core.Commitment[commitment_id].status = "early_exit"]]
    ELSE [err |-> OK, w |-> w, id |-> NoId]

\* ------------------------------------------------------ stubs of the core
update_value(w, caller, commitment_id, new_value) ==
    IF require_authorized(w.core, caller) # OK
    THEN fail(w, require_authorized(w.core, caller))
    ELSE [err |-> OK, w |-> w, id |-> NoId]

early_exit(w, commitment_id, caller) == [err |-> OK, w |-> w, id |-> NoId]

allocate(w, caller, commitment_id, target_pool, amount) ==
    IF require_authorized(w.core, caller) # OK
    THEN fail(w, require_authorized(w.core, caller))
    ELSE [err |-> OK, w |-> w, id |-> NoId]

\* --------------------------------------------------------------- initial
InitCore ==
    [Admin |-> NoAddr, NftContract |-> NoAddr,
     TotalCommitments |-> 0, TotalValueLocked |-> 0,
     TotalValueLockedByAsset |-> [a \in Assets |-> 0],
     OwnerCommitments |-> [o \in Owners |-> <<>>],
     LastCommitmentId |-> NoId,
     Commitment |-> <<>>,
     ReentrancyGuard |-> FALSE,
     EmergencyMode |-> FALSE,
     AuthorizedContracts |-> {}]

InitNft ==
    [Admin |-> NoAddr, TokenCounter |-> 0, NFT |-> <<>>, ReentrancyGuard |-> FALSE,
     AuthorizedContracts |-> {},
     CoreContract |-> NoAddr,
     OwnerBalance |-> [o \in Owners |-> 0],
     OwnerTokens |-> [o \in Owners |-> <<>>],
     TokenIds |-> <<>>]

InitExt == [deposits |-> {}, payouts |-> {}, certSettled |-> {}]

NoFrame == [id |-> NoId, settlement_amount |-> 0, pre |-> <<>>]

NoArgs == <<>>

Step(op, err, id, nested, ret, args, events) ==
    [op |-> op, err |-> err, id |-> id, nested |-> nested, ret |-> ret, args |-> args,
     events |-> events]

\* no result is pending: the caller has taken the last one
NoStep == Step("none", OK, NoId, FALSE, FALSE, NoArgs, NoEvents)

Init ==
    /\ core = InitCore
    /\ nft = InitNft
    /\ ext = InitExt
    /\ now = 0
    /\ pc = "idle"
    /\ frame = NoFrame
    /\ last = NoStep

\* ---------------------------------------------------------------- actions
\* no call is in flight and the last result has been taken
Idle == pc = "idle" /\ last = NoStep

InFlight == pc # "idle"

Commit(w) ==
    /\ core' = w.core
    /\ nft' = w.nft
    /\ ext' = w.ext

Initialize(admin, nft_contract) ==
    /\ Idle
    /\ LET r == initialize(World, admin, nft_contract)
       IN /\ Commit(r.w)
          /\ last' = Step("initialize", r.err, NoId, FALSE, FALSE,
                          [admin |-> admin], NoEvents)
    /\ UNCHANGED <<now, pc, frame>>

CreateCommitment(owner, amount, asset_address, rules, limited, supported) ==
    /\ Idle
    /\ core.TotalCommitments < MaxCommitments
    /\ LET r == create_commitment(World, owner, amount, asset_address, rules,
                                  limited, supported, now)
       IN /\ Commit(r.w)
          /\ last' = Step("create_commitment", r.err, r.id, FALSE, FALSE,
                       [owner |-> owner, amount |-> amount, asset_address |-> asset_address,
                        rules |-> rules, limited |-> limited, supported |-> supported],
                       r.events)
    /\ UNCHANGED <<now, pc, frame>>

\* settle up to its first external call
SettleBegin(commitment_id) ==
    /\ Idle
    /\ LET err == settle_checks(core, commitment_id, now)
       IN IF err # OK
          THEN /\ last' = Step("settle", err, commitment_id, FALSE, FALSE, NoArgs, NoEvents)
               /\ UNCHANGED <<core, nft, ext, now, pc, frame>>
          ELSE /\ core' = settle_effects(core, commitment_id)
               /\ pc' = "transfer"
               /\ frame' = [id |-> commitment_id,
                            settlement_amount |-> core.Commitment[commitment_id].current_value,
                            pre |-> World]
               /\ last' = Step("settle", "in_flight", commitment_id, FALSE, FALSE, NoArgs, NoEvents)
               /\ UNCHANGED <<nft, ext, now>>

\* the host discards the in-flight call's writes
Rollback(err) ==
    /\ Commit(frame.pre)
    /\ pc' = "idle"
    /\ frame' = NoFrame
    /\ last' = Step("settle", err, frame.id, FALSE, FALSE, NoArgs, NoEvents)
    /\ UNCHANGED now

\* token_client.transfer(vault, owner, settlement_amount)
SettleTransfer(answer) ==
    /\ pc = "transfer"
    /\ IF answer
       THEN /\ ext' = token_transfer(ext, frame.id, core.Commitment[frame.id].owner,
                                     core.Commitment[frame.id].asset_address,
                                     frame.settlement_amount)
            /\ pc' = "nft_settle"
            /\ UNCHANGED <<core, nft, now, frame, last>>
       ELSE Rollback("TransferFailed")

\* invoke_contract(nft_contract, "settle", [nft_token_id]), then the guard is cleared
SettleNft(answer) ==
    /\ pc = "nft_settle"
    /\ LET r == issuer_settle(World, core.Commitment[frame.id].nft_token_id, now, answer)
       IN IF r.err = OK
          THEN /\ core' = settle_finish(core)
               /\ nft' = r.nft
               /\ ext' = [ext EXCEPT !.certSettled = @ \cup {frame.id}]
               /\ pc' = "idle"
               /\ frame' = NoFrame
               /\ last' = Step("settle", OK, frame.id, FALSE, FALSE, NoArgs,
                            <<[topic |-> "Settled", id |-> frame.id,
                               amount |-> frame.settlement_amount, t |-> now]>>)
               /\ UNCHANGED now
          ELSE Rollback("CertificateOperationFailed")

\* a callee of settle calls back into create_commitment
ReenterCreate(owner, amount, asset_address, rules, limited, supported) ==
    /\ InFlight
    /\ ~last.nested
    /\ core.TotalCommitments < MaxCommitments
    /\ LET r == create_commitment(World, owner, amount, asset_address, rules,
                                  limited, supported, now)
       IN /\ Commit(r.w)
          /\ last' = Step("create_commitment", r.err, r.id, TRUE, FALSE,
                       [owner |-> owner, amount |-> amount, asset_address |-> asset_address,
                        rules |-> rules, limited |-> limited, supported |-> supported],
                       r.events)
    /\ UNCHANGED <<now, pc, frame>>

\* a callee of settle calls back into settle
ReenterSettle(commitment_id) ==
    /\ InFlight
    /\ ~last.nested
    /\ LET err == settle_checks(core, commitment_id, now)
       IN /\ core' = IF err = OK THEN settle_finish(settle_effects(core, commitment_id))
                     ELSE core
          /\ last' = Step("settle", err, commitment_id, TRUE, FALSE, NoArgs, NoEvents)
    /\ UNCHANGED <<nft, ext, now, pc, frame>>

CheckViolations(commitment_id) ==
    /\ Idle
    /\ LET r == check_violations(core, commitment_id, now)
       IN /\ core' = r.c
          /\ last' = Step("check_violations", r.err, commitment_id, FALSE, r.ret, NoArgs,
                          r.events)
    /\ UNCHANGED <<nft, ext, now, pc, frame>>

GetViolationDetails(commitment_id) ==
    /\ Idle
    /\ \E overflow_checks \in BOOLEAN :
       LET r == get_violation_details(core, commitment_id, now, overflow_checks)
       IN /\ core' = r.c
          /\ last' = Step("get_violation_details", r.err, commitment_id, FALSE, r.ret,
                          NoArgs, NoEvents)
    /\ UNCHANGED <<nft, ext, now, pc, frame>>

UpdateValue(caller, commitment_id, new_value) ==
    /\ Idle
    /\ LET r == update_value(World, caller, commitment_id, new_value)
       IN /\ Commit(r.w)
          /\ last' = Step("update_value", r.err, NoId, FALSE, FALSE,
                          [caller |-> caller], NoEvents)
    /\ UNCHANGED <<now, pc, frame>>

EarlyExit(commitment_id, caller) ==
    /\ Idle
    /\ LET r == early_exit(World, commitment_id, caller)
       IN /\ Commit(r.w)
          /\ last' = Step("early_exit", r.err, NoId, FALSE, FALSE,
                          [caller |-> caller], NoEvents)
    /\ UNCHANGED <<now, pc, frame>>

Allocate(caller, commitment_id, target_pool, amount) ==
    /\ Idle
    /\ LET r == allocate(World, caller, commitment_id, target_pool, amount)
       IN /\ Commit(r.w)
          /\ last' = Step("allocate", r.err, NoId, FALSE, FALSE,
                          [caller |-> caller], NoEvents)
    /\ UNCHANGED <<now, pc, frame>>

AddAuthorizedAllocator(caller, allocator_address) ==
    /\ Idle
    /\ LET r == add_authorized_contract(core, caller, allocator_address)
       IN /\ core' = r.c
          /\ last' = Step("add_authorized_allocator", r.err, NoId, FALSE, FALSE,
                          [caller |-> caller], NoEvents)
    /\ UNCHANGED <<nft, ext, now, pc, frame>>

RemoveAuthorizedAllocator(caller, allocator_address) ==
    /\ Idle
    /\ LET r == remove_authorized_contract(core, caller, allocator_address)
       IN /\ core' = r.c
          /\ last' = Step("remove_authorized_allocator", r.err, NoId, FALSE, FALSE,
                          [caller |-> caller], NoEvents)
    /\ UNCHANGED <<nft, ext, now, pc, frame>>

NftInitialize(admin) ==
    /\ Idle
    /\ LET r == nft_initialize(nft, admin)
       IN /\ nft' = r.nft
          /\ last' = Step("nft_initialize", r.err, NoId, FALSE, FALSE,
                          [admin |-> admin], NoEvents)
    /\ UNCHANGED <<core, ext, now, pc, frame>>

\* largest number of certificates minted
MaxTokens == 2

NftMint(caller, owner, commitment_id, rules, initial_amount, asset_address) ==
    /\ Idle
    /\ nft.TokenCounter < MaxTokens
    /\ LET r == mint(nft, caller, owner, commitment_id, rules.duration_days,
                     rules.max_loss_percent, rules.commitment_type, initial_amount,
                     asset_address, now)
       IN /\ nft' = r.nft
          /\ last' = Step("mint", r.err, commitment_id, FALSE, r.token_id,
                          [caller |-> caller, owner |-> owner, rules |-> rules,
                           amount |-> initial_amount],
                          r.events)
    /\ UNCHANGED <<core, ext, now, pc, frame>>

NftTransfer(from, to, token_id) ==
    /\ Idle
    /\ LET r == transfer(nft, from, to, token_id)
       IN /\ nft' = r.nft
          /\ last' = Step("transfer", r.err, NoId, FALSE, FALSE,
                          [from |-> from, to |-> to, token_id |-> token_id], NoEvents)
    /\ UNCHANGED <<core, ext, now, pc, frame>>

\* commitment_nft settle(token_id), called directly by any address
NftSettle(caller, token_id) ==
    /\ Idle
    /\ LET r == nft_settle(nft, token_id, now)
       IN /\ nft' = r.nft
          /\ last' = Step("nft_settle", r.err, NoId, FALSE, FALSE,
                          [caller |-> caller, token_id |-> token_id], NoEvents)
    /\ UNCHANGED <<core, ext, now, pc, frame>>

SetCoreContract(core_contract) ==
    /\ Idle
    /\ LET r == set_core_contract(nft, core_contract)
       IN /\ nft' = r.nft
          /\ last' = Step("set_core_contract", r.err, NoId, FALSE, FALSE, NoArgs, NoEvents)
    /\ UNCHANGED <<core, ext, now, pc, frame>>

GetCommitment(commitment_id) ==
    /\ Idle
    /\ LET r == get_commitment(core, commitment_id)
       IN last' = Step("get_commitment", r.err, commitment_id, FALSE, r.ret, NoArgs, NoEvents)
    /\ UNCHANGED <<core, nft, ext, now, pc, frame>>

\* EmergencyControl::set_emergency_mode, by the admin
SetEmergencyMode(enabled) ==
    /\ Idle
    /\ core.Admin # NoAddr
    /\ enabled # core.EmergencyMode
    /\ core' = [core EXCEPT !.EmergencyMode = enabled]
    /\ UNCHANGED <<nft, ext, now, pc, frame, last>>

\* the ledger closes; the next transaction sees a later timestamp
AdvanceTime(t) ==
    /\ Idle
    /\ t > now
    /\ now' = t
    /\ UNCHANGED <<core, nft, ext, pc, frame, last>>

\* the caller takes the result of the call that has just returned
Return ==
    /\ pc = "idle"
    /\ last # NoStep
    /\ last' = NoStep
    /\ UNCHANGED <<core, nft, ext, now, pc, frame>>

Next ==
    \/ \E admin \in Admins, n \in NftContracts : Initialize(admin, n)
    \/ \E o \in Owners, a \in Amounts, s \in Assets, r \in RuleInputs,
          limited \in BOOLEAN, supported \in BOOLEAN :
            CreateCommitment(o, a, s, r, limited, supported)
    \/ \E id \in Ids : SettleBegin(id)
    \/ \E answer \in BOOLEAN : SettleTransfer(answer)
    \/ \E answer \in BOOLEAN : SettleNft(answer)
    \/ \E o \in Owners, a \in Amounts, s \in Assets, r \in RuleInputs,
          limited \in BOOLEAN, supported \in BOOLEAN :
            ReenterCreate(o, a, s, r, limited, supported)
    \/ \E id \in Ids : ReenterSettle(id)
    \/ \E id \in Ids : CheckViolations(id)
    \/ \E id \in Ids : GetViolationDetails(id)
    \/ \E caller \in Callers, id \in Ids, v \in Values : UpdateValue(caller, id, v)
    \/ \E id \in Ids, caller \in Callers : EarlyExit(id, caller)
    \/ \E caller \in Callers, id \in Ids, p \in Pools, a \in Values :
            Allocate(caller, id, p, a)
    \/ \E enabled \in BOOLEAN : SetEmergencyMode(enabled)
    \/ \E t \in TimePoints : AdvanceTime(t)
    \/ Return

Spec == Init /\ [][Next]_vars

\* ------------------------------------- creation alone, over wider inputs
WideAmounts == {-1, 0, 1000}

Rules(d, m, ty) ==
    [duration_days |-> d, max_loss_percent |-> m, commitment_type |-> ty,
     early_exit_penalty |-> 5, min_fee_threshold |-> 0]

WideRules ==
    { Rules(1, 0, "safe"), Rules(30, 100, "aggressive"),
      Rules(0, 10, "safe"), Rules(1, 101, "balanced"), Rules(30, 100, "risky"),
      Rules(0, 101, "risky") }

NextCreate ==
    \/ \E admin \in Admins, n \in NftContracts : Initialize(admin, n)
    \/ \E o \in Owners, a \in WideAmounts, s \in Assets, r \in WideRules,
          limited \in BOOLEAN, supported \in BOOLEAN :
            CreateCommitment(o, a, s, r, limited, supported)
    \/ \E enabled \in BOOLEAN : SetEmergencyMode(enabled)
    \/ AdvanceTime(SECONDS_PER_DAY)
    \/ Return

SpecCreate == Init /\ [][NextCreate]_vars

\* ------------------------------------- id generation, over more counters
GenerateId(counter) ==
    /\ Idle
    /\ last' = Step("generate_commitment_id", OK, generate_commitment_id(counter), FALSE,
                    FALSE, [counter |-> counter], NoEvents)
    /\ UNCHANGED <<core, nft, ext, now, pc, frame>>

NextIds ==
    \/ \E admin \in Admins, n \in NftContracts : Initialize(admin, n)
    \/ \E o \in Owners, a \in Amounts, s \in Assets :
            CreateCommitment(o, a, s, GoodRules, FALSE, TRUE)
    \/ \E counter \in 0..MaxCounter : GenerateId(counter)
    \/ Return

SpecIds == Init /\ [][NextIds]_vars

\* --------------------------- violation checks, over stored commitments
StoredAmounts == {-1, 0, 1000}
StoredValues == {0, 890, 900, 950, 1000, 1001}
StoredMaxLoss == {10, 100}
StoredStatus == {"active", "settled", "violated"}

\* a commitment record placed in storage under the first id
stored_commitment(amount, current_value, max_loss_percent, status) ==
    [commitment_id |-> generate_commitment_id(0),
     owner |-> "alice",
     nft_token_id |-> 1,
     rules |-> [duration_days |-> 1, max_loss_percent |-> max_loss_percent,
                commitment_type |-> "balanced", early_exit_penalty |-> 10,
                min_fee_threshold |-> 1000],
     amount |-> amount,
     asset_address |-> "usdc",
     created_at |-> 0,
     expires_at |-> 0 + 1 * SECONDS_PER_DAY,
     current_value |-> current_value,
     status |-> status]

\* storage holding one commitment drawn from the given fields
StoredInit(amounts, values, limits, statuses) ==
    /\ \E amount \in amounts, current_value \in values,
          max_loss_percent \in limits, status \in statuses :
          LET commitment == stored_commitment(amount, current_value, max_loss_percent, status)
              locked == IF status = "active" THEN current_value ELSE 0
          IN core = [set_commitment(InitCore, commitment) EXCEPT
                        !.Admin = "admin",
                        !.NftContract = "other",
                        !.LastCommitmentId = commitment.commitment_id,
                        !.OwnerCommitments["alice"] = <<commitment.commitment_id>>,
                        !.TotalCommitments = 1,
                        !.TotalValueLocked = locked,
                        !.TotalValueLockedByAsset["usdc"] = locked]
    /\ nft = InitNft
    /\ ext = InitExt
    /\ now = 0
    /\ pc = "idle"
    /\ frame = NoFrame
    /\ last = NoStep

InitViolations == StoredInit(StoredAmounts, StoredValues, StoredMaxLoss, StoredStatus)

\* the caller of check_violations calls it again at once, on the same id
CheckViolationsAgain(commitment_id) ==
    /\ pc = "idle"
    /\ last.op = "check_violations"
    /\ last.id = commitment_id
    /\ last.args = NoArgs
    /\ LET r == check_violations(core, commitment_id, now)
       IN /\ core' = r.c
          /\ last' = Step("check_violations", r.err, commitment_id, FALSE, r.ret,
                          [first_err |-> last.err, first_ret |-> last.ret], r.events)
    /\ UNCHANGED <<nft, ext, now, pc, frame>>

\* one caller asks check_violations and then get_violation_details about the same
\* id, in one transaction
CheckThenGetDetails(commitment_id) ==
    /\ Idle
    /\ \E overflow_checks \in BOOLEAN :
       LET checked == check_violations(core, commitment_id, now)
           r == get_violation_details(checked.c, commitment_id, now, overflow_checks)
       IN /\ core' = r.c
          /\ last' = Step("check_then_get_details", r.err, commitment_id, FALSE, r.ret,
                          [check_err |-> checked.err, check_ret |-> checked.ret],
                          checked.events)
    /\ UNCHANGED <<nft, ext, now, pc, frame>>

NextViolations ==
    \/ \E id \in Ids : CheckViolations(id)
    \/ \E id \in Ids : CheckViolationsAgain(id)
    \/ \E id \in Ids : CheckThenGetDetails(id)
    \/ \E id \in Ids : GetViolationDetails(id)
    \/ \E t \in LateTimePoints : AdvanceTime(t)
    \/ Return

SpecViolations == InitViolations /\ [][NextViolations]_vars

\* ------------------- violation checks, at the ends of the integer range
ExtremeAmounts == {1, 1000, MaxInt}
ExtremeValues == {MinInt, -1, 0, 1000, MaxInt}

InitOverflow == StoredInit(ExtremeAmounts, ExtremeValues, StoredMaxLoss, {"active"})

NextOverflow ==
    \/ \E id \in Ids : CheckViolations(id)
    \/ \E id \in Ids : GetViolationDetails(id)
    \/ \E t \in LateTimePoints : AdvanceTime(t)
    \/ Return

SpecOverflow == InitOverflow /\ [][NextOverflow]_vars

\* ------------------- rule validation, in creation and in the certificate mint
NextRules ==
    \/ \E admin \in Admins : Initialize(admin, "commitment_nft")
    \/ \E admin \in Admins : NftInitialize(admin)
    \/ \E a \in WideAmounts, r \in WideRules, supported \in BOOLEAN :
            CreateCommitment("alice", a, "usdc", r, FALSE, supported)
    \/ \E caller \in Callers, a \in WideAmounts, r \in WideRules :
            NftMint(caller, "bob", generate_commitment_id(0), r, a, "usdc")
    \/ AdvanceTime(SECONDS_PER_DAY)
    \/ Return

SpecRules == Init /\ [][NextRules]_vars

\* ------------------- the authorized operations, with a whitelisted allocator
NextAccess ==
    \/ \E admin \in Admins : Initialize(admin, "other")
    \/ CreateCommitment("alice", 3, "usdc", GoodRules, FALSE, TRUE)
    \/ \E id \in Ids : SettleBegin(id)
    \/ \E answer \in BOOLEAN : SettleTransfer(answer)
    \/ \E answer \in BOOLEAN : SettleNft(answer)
    \/ \E id \in Ids : CheckViolations(id)
    \/ \E caller \in Callers \cup Allocators, id \in Ids, v \in Values :
            UpdateValue(caller, id, v)
    \/ \E id \in Ids, caller \in Callers \cup Allocators : EarlyExit(id, caller)
    \/ \E caller \in Callers \cup Allocators, id \in Ids, p \in Pools, a \in Values :
            Allocate(caller, id, p, a)
    \/ \E caller \in Callers, a \in Allocators : AddAuthorizedAllocator(caller, a)
    \/ \E caller \in Callers, a \in Allocators : RemoveAuthorizedAllocator(caller, a)
    \/ \E id \in Ids : GetCommitment(id)
    \/ AdvanceTime(SECONDS_PER_DAY)
    \/ Return

SpecAccess == Init /\ [][NextAccess]_vars

\* ------------------- the certificate contract on its own
\* token ids a caller names: 0 is never minted
TokenIdInputs == 0..MaxTokens

\* callers of the certificate contract's settle
SettleCallers == {"commitment_core", "alice"}

NextNft ==
    \/ \E admin \in Admins : NftInitialize(admin)
    \/ SetCoreContract("commitment_core")
    \/ \E caller \in Callers, o \in Owners :
            NftMint(caller, o, generate_commitment_id(0), GoodRules, 3, "usdc")
    \/ \E from \in Owners, to \in Owners, token_id \in TokenIdInputs :
            NftTransfer(from, to, token_id)
    \/ \E caller \in SettleCallers, token_id \in TokenIdInputs : NftSettle(caller, token_id)
    \/ \E t \in TimePoints : AdvanceTime(t)
    \/ Return

SpecNft == Init /\ [][NextNft]_vars

\* ------------------- initialization of both contracts, by either address
NextInitialize ==
    \/ \E admin \in Callers, n \in NftContracts : Initialize(admin, n)
    \/ \E admin \in Callers : NftInitialize(admin)
    \/ CreateCommitment("alice", 3, "usdc", GoodRules, FALSE, TRUE)
    \/ \E caller \in Callers :
            NftMint(caller, "alice", generate_commitment_id(0), GoodRules, 3, "usdc")
    \/ Return

SpecInitialize == Init /\ [][NextInitialize]_vars

RECURSIVE SumValues(_, _)
SumValues(c, ids) ==
    IF ids = {} THEN 0
    ELSE LET k == CHOOSE x \in ids : TRUE
         IN c.Commitment[k].current_value + SumValues(c, ids \ {k})

ActiveIds(c) == { k \in DOMAIN c.Commitment : c.Commitment[k].status = "active" }

SettledIds(c) == { k \in DOMAIN c.Commitment : c.Commitment[k].status = "settled" }

\* a call returned in this step (a nested call returns to the callee that made it)
Returned(op) == last' # last /\ last'.op = op /\ last'.err # "in_flight"

\* the storage a call that returns in this step started from
AtCallStart == IF pc = "idle" \/ last'.nested THEN World ELSE frame.pre

\* the token ledger shows the settlement amount of commitment k going back to its owner
PaidOut(k) ==
    [id |-> k, to |-> core.Commitment[k].owner,
     asset |-> core.Commitment[k].asset_address,
     amount |-> core.Commitment[k].current_value] \in ext.payouts

\* C1: after every completed operation total_value_locked equals the sum of
\* current_value over exactly the commitments whose status is Active.
C1_TvlIsSumOfActive ==
    pc = "idle" => core.TotalValueLocked = SumValues(core, ActiveIds(core))

C1_Witness ==
    /\ pc = "idle"
    /\ ActiveIds(core) # {}
    /\ SettledIds(core) # {}
    /\ core.TotalValueLocked > 0

\* C2 as stated: once settle(id) has succeeded, every later settle(id) fails with
\* NotActive and changes nothing.
C2_LaterSettleFailsNotActive ==
    [][\A k \in Ids :
        (k \in ext.certSettled /\ Returned("settle") /\ last'.id = k)
            => (last'.err = "NotActive" /\ World' = World)]_vars

\* C2 amended: at most one settle(id) ever succeeds; once one has succeeded every
\* later settle(id) fails and changes nothing, with NotActive whenever the call gets
\* past the reentrancy guard and the emergency-mode gate.
C2_AtMostOneSettle ==
    [][\A k \in Ids :
        /\ (last' # last /\ last'.op = "settle" /\ last'.id = k /\ k \in ext.certSettled)
              => /\ last'.err \notin {OK, "in_flight"}
                 /\ World' = World
                 /\ (~core.ReentrancyGuard /\ ~core.EmergencyMode => last'.err = "NotActive")
        /\ (Returned("settle") /\ last'.id = k /\ last'.err = OK)
              => (k \notin ext.certSettled /\ k \in ext'.certSettled)]_vars

C2_Witness ==
    /\ last.op = "settle"
    /\ last.err = "NotActive"
    /\ last.id \in ext.certSettled

\* C3: a settle made with the guard free, no emergency mode, on an existing Active
\* commitment at or after expires_at succeeds, its call to the certificate contract's
\* settle on the stored certificate id included (a token transfer refused by the
\* token contract is the one failure left to the environment).
C3_SettleSucceeds ==
    \A k \in DOMAIN core.Commitment :
        ( /\ pc = "idle"
          /\ last.op = "settle" /\ last.id = k /\ ~last.nested
          /\ last.err # "TransferFailed"
          /\ core.NftContract = "commitment_nft"
          /\ ~core.EmergencyMode
          /\ now >= core.Commitment[k].expires_at
          /\ (core.Commitment[k].status = "active" \/ last.err = OK) )
        => (last.err = OK /\ core.Commitment[k].status = "settled")

\* C4: every failing settle leaves every commitment, the counters, the per-asset TVL
\* and the guard as they were before the call, and a call that gets past the guard
\* and the emergency gate reports the first failing check in the order unknown id ->
\* CommitmentNotFound, now < expires_at -> NotExpired, status # Active -> NotActive.
C4_FailedSettleChangesNothing ==
    [][(Returned("settle") /\ last'.err # OK) =>
        LET k == last'.id
        IN /\ World' = AtCallStart
           /\ (pc = "idle" /\ ~core.ReentrancyGuard /\ ~core.EmergencyMode) =>
                /\ k \notin DOMAIN core.Commitment => last'.err = "CommitmentNotFound"
                /\ (k \in DOMAIN core.Commitment /\ now < core.Commitment[k].expires_at)
                     => last'.err = "NotExpired"
                /\ (k \in DOMAIN core.Commitment /\ now >= core.Commitment[k].expires_at)
                     => (last'.err = "NotActive" /\ core.Commitment[k].status # "active")
       ]_vars

C4_Witness ==
    /\ pc = "idle"
    /\ last.op = "settle"
    /\ last.err = "NotExpired"
    /\ last.id \in DOMAIN core.Commitment
    /\ core.Commitment[last.id].status = "active"
    /\ core.TotalValueLocked = core.Commitment[last.id].current_value

\* C5: after a completed operation a commitment is Settled exactly when the transfer
\* of its settlement amount back to its owner and the issuer's settle call for it have
\* both taken effect; a failed interaction leaves it Active and still counted in TVL.
C5_SettledIffInteractions ==
    pc = "idle" =>
        /\ \A k \in DOMAIN core.Commitment :
              core.Commitment[k].status = "settled" <=> (PaidOut(k) /\ k \in ext.certSettled)
        /\ (last.op = "settle" /\ last.err \in {"TransferFailed", "CertificateOperationFailed"})
              => /\ core.Commitment[last.id].status = "active"
                 /\ ~PaidOut(last.id)
                 /\ last.id \notin ext.certSettled
                 /\ core.TotalValueLocked = SumValues(core, ActiveIds(core))

C5_Witness ==
    /\ pc = "idle"
    /\ last.op = "settle"
    /\ last.err = OK
    /\ core.Commitment[last.id].status = "settled"
    /\ PaidOut(last.id)
    /\ last.id \in ext.certSettled

\* C6: a create_commitment or settle arriving while the guard is held by an in-flight
\* call fails with ReentrancyDetected and changes no counter and no commitment.
C6_ReentrantCallRejected ==
    [][(InFlight /\ core.ReentrancyGuard /\ last' # last /\ last'.nested)
          => (last'.err = "ReentrancyDetected" /\ World' = World)]_vars

C6_Witness ==
    /\ pc = "nft_settle"
    /\ last.nested
    /\ last.op = "create_commitment"
    /\ last.err = "ReentrancyDetected"
    /\ core.ReentrancyGuard

\* C7: the reentrancy guard is false whenever no create_commitment or settle body is
\* executing, whatever the outcome of the call that has just returned.
C7_GuardFreeWhenIdle == pc = "idle" => ~core.ReentrancyGuard

C7_Witness ==
    /\ pc = "idle"
    /\ last.op = "settle"
    /\ last.err = "CertificateOperationFailed"
    /\ ~core.ReentrancyGuard

\* C8: no state after a completed operation holds a commitment without the matching
\* counter updates and the transfer of its amount from the owner to the vault.
C8_CommitmentHasTransfer ==
    pc = "idle" =>
        /\ core.TotalCommitments = Cardinality(DOMAIN core.Commitment)
        /\ \A k \in DOMAIN core.Commitment :
              [id |-> k, from |-> core.Commitment[k].owner,
               asset |-> core.Commitment[k].asset_address,
               amount |-> core.Commitment[k].amount] \in ext.deposits

\* C9: after a successful create_commitment(owner, amount, asset, rules) the record
\* under the returned id is Active with current_value = amount = principal, the given
\* owner, asset and rules, created_at = the ledger time of the call and
\* expires_at = created_at + duration_days * 86400.
C9_CreatedRecord ==
    (last.op = "create_commitment" /\ last.err = OK) =>
        /\ last.id \in DOMAIN core.Commitment
        /\ LET c == core.Commitment[last.id]
           IN /\ c.commitment_id = last.id
              /\ c.status = "active"
              /\ c.current_value = last.args.amount
              /\ c.amount = last.args.amount
              /\ c.owner = last.args.owner
              /\ c.asset_address = last.args.asset_address
              /\ c.rules = last.args.rules
              /\ c.created_at = now
              /\ c.expires_at = c.created_at + last.args.rules.duration_days * 86400

C9_Witness ==
    /\ last.op = "create_commitment"
    /\ last.err = OK
    /\ last.args.rules.duration_days = 30
    /\ now > 0
    /\ core.TotalCommitments = 2

\* the typed errors that answer an invalid create_commitment request
InvalidRequest(a, emergency) ==
    \/ emergency
    \/ a.limited
    \/ a.amount <= 0
    \/ a.rules.duration_days = 0
    \/ a.rules.max_loss_percent > 100
    \/ a.rules.commitment_type \notin {"safe", "balanced", "aggressive"}
    \/ ~a.supported

ErrorAnswers(err, a, emergency) ==
    \/ err = "EmergencyMode" /\ emergency
    \/ err = "RateLimitExceeded" /\ a.limited
    \/ err = "InvalidAmount" /\ a.amount <= 0
    \/ err = "InvalidDuration" /\ a.rules.duration_days = 0
    \/ err = "InvalidMaxLoss" /\ a.rules.max_loss_percent > 100
    \/ err = "InvalidCommitmentType"
          /\ a.rules.commitment_type \notin {"safe", "balanced", "aggressive"}
    \/ err = "AssetNotSupported" /\ ~a.supported

\* C10: create_commitment called with amount <= 0, invalid rules, a rate-limited
\* caller, emergency mode on or an unsupported asset fails with the corresponding
\* typed error and stores nothing: no commitment, no index entry, no counter change.
C10_InvalidCreateRejected ==
    [][(pc = "idle" /\ Returned("create_commitment")
          /\ InvalidRequest(last'.args, core.EmergencyMode))
        => /\ ErrorAnswers(last'.err, last'.args, core.EmergencyMode)
           /\ World' = World]_vars

C10_Witness ==
    /\ last.op = "create_commitment"
    /\ last.err = "AssetNotSupported"
    /\ last.args.amount = 1000
    /\ core.TotalCommitments = 1

\* C11: after every completed operation total_commitments equals the number of
\* commitment ids ever created: it starts at 0, every successful create_commitment
\* raises it by exactly one, no other step changes it, and it never decreases.
C11_TotalCommitmentsCounts ==
    /\ [](pc = "idle" => core.TotalCommitments = Cardinality(DOMAIN core.Commitment))
    /\ [][/\ core'.TotalCommitments >= core.TotalCommitments
          /\ core'.TotalCommitments - core.TotalCommitments =
                IF Returned("create_commitment") /\ last'.err = OK THEN 1 ELSE 0]_vars

C11_Witness ==
    /\ pc = "idle"
    /\ core.TotalCommitments = 2
    /\ SettledIds(core) # {}
    /\ last.op = "create_commitment"
    /\ last.err = OK

\* the number a sequence of ASCII decimal digits writes
RECURSIVE DecimalValue(_)
DecimalValue(digits) ==
    IF digits = <<>> THEN 0
    ELSE DecimalValue(SubSeq(digits, 1, Len(digits) - 1)) * 10 + (digits[Len(digits)] - 48)

\* C12: generate_commitment_id is an injective function of the counter, "c_" followed
\* by the counter's decimal digits; a successful create_commitment returns an id no
\* stored commitment has, and leaves every stored commitment record as it was.
C12_IdsUnique ==
    /\ [](last.op = "generate_commitment_id" =>
            LET n == last.args.counter
                digits == SubSeq(last.id, 3, Len(last.id))
            IN /\ SubSeq(last.id, 1, 2) = <<99, 95>>
               /\ Len(digits) >= 1
               /\ \A j \in 1..Len(digits) : digits[j] \in 48..57
               /\ (Len(digits) > 1 => digits[1] # 48)
               /\ DecimalValue(digits) = n
               /\ \A m \in 0..MaxCounter : m # n => generate_commitment_id(m) # last.id)
    /\ [][(Returned("create_commitment") /\ last'.err = OK) =>
            /\ last'.id = generate_commitment_id(core.TotalCommitments)
            /\ last'.id \notin DOMAIN core.Commitment
            /\ last'.id \in DOMAIN core'.Commitment
            /\ \A k \in DOMAIN core.Commitment :
                  core'.Commitment[k] = core.Commitment[k]]_vars

C12_Witness ==
    /\ last.op = "generate_commitment_id"
    /\ last.args.counter = 120
    /\ last.id = <<99, 95, 49, 50, 48>>
    /\ core.TotalCommitments = 2
    /\ Cardinality(DOMAIN core.Commitment) = 2

\* the core storage as committed by completed calls: the writes of a call still in
\* flight are not part of it until the call returns
Committed == IF pc = "idle" THEN core ELSE frame.pre.core

\* C13: a commitment, once created, is never deleted, and a commitment that has left
\* Active never becomes Active again nor changes to another status; the only change
\* of status is from Active to Settled.
C13_StatusMovesForward ==
    [][\A k \in DOMAIN Committed.Commitment :
          /\ k \in DOMAIN Committed'.Commitment
          /\ Committed.Commitment[k].status # "active"
                => Committed'.Commitment[k].status = Committed.Commitment[k].status
          /\ Committed'.Commitment[k].status # Committed.Commitment[k].status
                => Committed'.Commitment[k].status = "settled"]_vars

C13_Witness ==
    /\ pc = "idle"
    /\ last.op = "create_commitment"
    /\ last.err = OK
    /\ \E k \in DOMAIN core.Commitment : k # last.id /\ core.Commitment[k].status = "settled"

IsPrefix(s, t) == Len(s) <= Len(t) /\ SubSeq(t, 1, Len(s)) = s

\* the counter value an id was generated from
IdIndex(k) == CHOOSE n \in 0..MaxCommitments : generate_commitment_id(n) = k

\* the places of id k in the owner index
IndexPlaces(c, k) ==
    { p \in Owners \X (1..MaxCommitments) :
        p[2] <= Len(c.OwnerCommitments[p[1]]) /\ c.OwnerCommitments[p[1]][p[2]] = k }

\* C14: after every completed operation every id in an owner's list is a stored
\* commitment of that owner, every stored id is listed exactly once, the lists are in
\* creation order, and no step removes or reorders an entry (a list only grows at
\* its end).
C14_OwnerIndex ==
    /\ [](pc = "idle" =>
            /\ \A o \in Owners : \A j \in 1..Len(core.OwnerCommitments[o]) :
                  /\ core.OwnerCommitments[o][j] \in DOMAIN core.Commitment
                  /\ core.Commitment[core.OwnerCommitments[o][j]].owner = o
            /\ \A k \in DOMAIN core.Commitment : Cardinality(IndexPlaces(core, k)) = 1
            /\ \A o \in Owners : \A i, j \in 1..Len(core.OwnerCommitments[o]) :
                  i < j => IdIndex(core.OwnerCommitments[o][i])
                            < IdIndex(core.OwnerCommitments[o][j]))
    /\ [][\A o \in Owners :
            IsPrefix(Committed.OwnerCommitments[o], Committed'.OwnerCommitments[o])]_vars

C14_Witness ==
    /\ pc = "idle"
    /\ Len(core.OwnerCommitments["alice"]) = 2
    /\ core.Commitment[core.OwnerCommitments["alice"][1]].status = "settled"
    /\ core.Commitment[core.OwnerCommitments["alice"][2]].status = "active"

RECURSIVE SumAssetTvl(_, _)
SumAssetTvl(c, assets) ==
    IF assets = {} THEN 0
    ELSE LET a == CHOOSE x \in assets : TRUE
         IN c.TotalValueLockedByAsset[a] + SumAssetTvl(c, assets \ {a})

ActiveIdsOf(c, asset) == { k \in ActiveIds(c) : c.Commitment[k].asset_address = asset }

\* C15: after every completed operation the per-asset TVL of every asset equals the
\* sum of current_value over the Active commitments with that asset, and the per-asset
\* TVLs add up to total_value_locked.
C15_PerAssetTvl ==
    pc = "idle" =>
        /\ \A a \in Assets :
              core.TotalValueLockedByAsset[a] = SumValues(core, ActiveIdsOf(core, a))
        /\ SumAssetTvl(core, Assets) = core.TotalValueLocked

C15_Witness ==
    /\ pc = "idle"
    /\ core.TotalValueLockedByAsset["usdc"] = 0
    /\ core.TotalValueLockedByAsset["xlm"] > 0
    /\ \E k \in SettledIds(core) : core.Commitment[k].asset_address = "usdc"
                                     /\ core.Commitment[k].current_value > 0

\* the commitment the last call was about
Subject == core.Commitment[last.id]

\* the loss, as a share of the principal, is above the limit by a whole percent
LossAboveLimit(commitment) ==
    /\ commitment.amount > 0
    /\ (commitment.amount - commitment.current_value) * 100
          >= (commitment.rules.max_loss_percent + 1) * commitment.amount

\* C16: for an Active commitment check_violations returns true exactly when the loss
\* percent is above max_loss_percent or now >= expires_at: a loss equal to the limit
\* is no violation, now = expires_at is one, and expiry alone yields true.
C16_CheckViolationsResult ==
    (last.op = "check_violations" /\ last.err = OK /\ Subject.status = "active") =>
        /\ last.ret = (LossAboveLimit(Subject) \/ now >= Subject.expires_at)
        /\ (Subject.amount = 1000 /\ Subject.rules.max_loss_percent = 10
              /\ now < Subject.expires_at)
             => last.ret = (Subject.current_value < 900)
        /\ now = Subject.expires_at => last.ret

C16_Witness ==
    /\ last.op = "check_violations"
    /\ last.err = OK
    /\ Subject.status = "active"
    /\ Subject.amount = 1000
    /\ Subject.current_value = 890
    /\ Subject.rules.max_loss_percent = 10
    /\ now < Subject.expires_at
    /\ last.ret

\* C17: check_violations fails with CommitmentNotFound for an id with no stored
\* commitment, and for a commitment whose status is not Active it returns false and
\* publishes no event, whatever its loss and whatever the time.
C17_CheckViolationsSkips ==
    last.op = "check_violations" =>
        /\ last.id \notin DOMAIN core.Commitment
              => (last.err = "CommitmentNotFound" /\ last.events = NoEvents)
        /\ (last.id \in DOMAIN core.Commitment /\ Subject.status # "active")
              => (last.err = OK /\ last.ret = FALSE /\ last.events = NoEvents)

C17_Witness ==
    /\ last.op = "check_violations"
    /\ last.err = OK
    /\ Subject.status = "settled"
    /\ Subject.amount = 1000
    /\ Subject.current_value = 0
    /\ Subject.rules.max_loss_percent = 10
    /\ now >= Subject.expires_at
    /\ last.ret = FALSE
    /\ last.events = NoEvents

\* C18: check_violations and get_violation_details change no stored state, and a
\* check_violations call repeated at once on the same id, at the same ledger time,
\* returns what the first call returned.
C18_ChecksChangeNothing ==
    /\ [][(Returned("check_violations") \/ Returned("get_violation_details"))
            => World' = World]_vars
    /\ [](last.op = "check_violations" /\ last.args # NoArgs
            => (last.err = last.args.first_err /\ last.ret = last.args.first_ret))

C18_Witness ==
    /\ last.op = "check_violations"
    /\ last.args # NoArgs
    /\ last.args.first_ret
    /\ last.ret
    /\ Subject.status = "active"
    /\ core.TotalValueLocked = Subject.current_value

\* the loss of a commitment in hundredths of its principal, before the division
LossTimes100(commitment) == (commitment.amount - commitment.current_value) * 100

C20_NoPrincipalNoLoss ==
    (last.op \in {"check_violations", "get_violation_details"}
     /\ last.id \in DOMAIN core.Commitment /\ Subject.amount <= 0) =>
        /\ last.err = OK
        /\ last.op = "get_violation_details" =>
              /\ last.ret.loss_percent = 0
              /\ last.ret.loss_violated = FALSE
              /\ last.ret.has_violations = (now >= Subject.expires_at)
        /\ (last.op = "check_violations" /\ Subject.status = "active")
              => last.ret = (now >= Subject.expires_at)

C20_Witness ==
    /\ last.op = "get_violation_details"
    /\ last.err = OK
    /\ Subject.amount = 0
    /\ Subject.current_value = 0
    /\ last.ret.loss_percent = 0
    /\ ~last.ret.has_violations

\* C21: get_violation_details returns time_remaining = expires_at - now when
\* expires_at > now and 0 otherwise, never negative, and duration_violated is true
\* exactly when time_remaining is 0.
C21_TimeRemaining ==
    (last.op = "get_violation_details" /\ last.err = OK) =>
        /\ Subject.expires_at > now => last.ret.time_remaining = Subject.expires_at - now
        /\ Subject.expires_at <= now => last.ret.time_remaining = 0
        /\ last.ret.time_remaining >= 0
        /\ last.ret.duration_violated = (last.ret.time_remaining = 0)
        /\ last.ret.duration_violated = (now >= Subject.expires_at)

C21_Witness ==
    /\ last.op = "get_violation_details"
    /\ last.err = OK
    /\ now > Subject.expires_at
    /\ last.ret.time_remaining = 0
    /\ last.ret.duration_violated

RuleErrors == {"InvalidDuration", "InvalidMaxLoss", "InvalidCommitmentType"}

\* a call made in this step got as far as validating the rules
ReachesRuleValidation ==
    /\ last' # last
    /\ \/ /\ last'.op = "create_commitment"
          /\ ~core.ReentrancyGuard
          /\ ~core.EmergencyMode
          /\ ~last'.args.limited
          /\ last'.args.amount > 0
       \/ /\ last'.op = "mint"
          /\ require_authorized(nft, last'.args.caller) = OK

\* C23: a create_commitment or a certificate mint that gets as far as the rules
\* fails with InvalidDuration for a duration of 0 days, with InvalidMaxLoss for a
\* loss limit above 100, with InvalidCommitmentType for a type other than safe,
\* balanced or aggressive, with none of the three for any other rule set (a loss
\* limit of 0 or 100 included), and a call rejected by the rules writes nothing.
C23_RuleValidation ==
    [][ReachesRuleValidation =>
         LET rules == last'.args.rules
         IN /\ rules.duration_days = 0 => last'.err = "InvalidDuration"
            /\ (rules.duration_days # 0 /\ rules.max_loss_percent > 100)
                    => last'.err = "InvalidMaxLoss"
            /\ (rules.duration_days # 0 /\ rules.max_loss_percent <= 100
                  /\ rules.commitment_type \notin {"safe", "balanced", "aggressive"})
                    => last'.err = "InvalidCommitmentType"
            /\ (rules.duration_days # 0 /\ rules.max_loss_percent <= 100
                  /\ rules.commitment_type \in {"safe", "balanced", "aggressive"})
                    => last'.err \notin RuleErrors
            /\ last'.err \in RuleErrors => World' = World]_vars

\* a second certificate is minted under a loss limit of exactly 100
C23_Witness ==
    /\ last.op = "mint"
    /\ last.err = OK
    /\ last.ret = 2
    /\ last.args.rules.max_loss_percent = 100

\* C24: while emergency mode is on, every create_commitment and every settle
\* fails, writes nothing, and leaves the reentrancy guard false.
C24_EmergencyModeBlocks ==
    [][(core.EmergencyMode /\ last' # last
          /\ last'.op \in {"create_commitment", "settle"})
        => /\ last'.err \notin {OK, "in_flight"}
           /\ World' = World
           /\ ~core'.ReentrancyGuard]_vars

\* a settle of an active, expired commitment is turned away by emergency mode
C24_Witness ==
    /\ last.op = "settle"
    /\ last.err = "EmergencyMode"
    /\ core.EmergencyMode
    /\ last.id \in DOMAIN core.Commitment
    /\ core.Commitment[last.id].status = "active"
    /\ now >= core.Commitment[last.id].expires_at
    /\ ~core.ReentrancyGuard

\* the caller is neither the admin nor on the whitelist
NotAuthorized(caller) == caller # core.Admin /\ caller \notin core.AuthorizedContracts

\* C25: the current_value of a stored commitment changes only in a step in which
\* update_value returns successfully to the admin or a whitelisted allocator;
\* update_value by any other caller fails with an authorization error and writes
\* nothing.
C25_ValueChangedOnlyByUpdate ==
    [][/\ \A k \in DOMAIN core.Commitment \cap DOMAIN core'.Commitment :
              core'.Commitment[k].current_value # core.Commitment[k].current_value
                 => /\ Returned("update_value")
                    /\ last'.err = OK
                    /\ ~NotAuthorized(last'.args.caller)
       /\ (Returned("update_value") /\ NotAuthorized(last'.args.caller))
              => /\ last'.err \in {"Unauthorized", "NotInitialized"}
                 /\ World' = World]_vars

\* update_value by a contract that is not on the whitelist is turned away while a
\* commitment is held
C25_Witness ==
    /\ last.op = "update_value"
    /\ last.err = "Unauthorized"
    /\ last.args.caller = "strategy"
    /\ core.AuthorizedContracts = {}
    /\ \E k \in DOMAIN core.Commitment :
          core.Commitment[k].status = "active" /\ core.Commitment[k].current_value = 3

\* C29: early_exit and allocate write nothing, whatever their arguments and
\* whether they succeed or fail: records, statuses, counters, value locked and
\* the guard are as before the call; allocate by a caller that is neither the
\* admin nor a whitelisted allocator fails.
C29_StubsChangeNothing ==
    [][/\ (Returned("early_exit") \/ Returned("allocate")) => World' = World
       /\ (Returned("allocate") /\ NotAuthorized(last'.args.caller)) => last'.err # OK]_vars

\* allocate by a contract taken off the whitelist fails while a commitment is held
C29_Witness ==
    /\ last.op = "allocate"
    /\ last.err = "Unauthorized"
    /\ last.args.caller = "strategy"
    /\ \E k \in DOMAIN core.Commitment : core.Commitment[k].status = "active"
    /\ core.TotalValueLocked = 3

\* the fields of a commitment that are fixed at creation
FixedFields(commitment) ==
    <<commitment.commitment_id, commitment.owner, commitment.rules, commitment.amount,
      commitment.asset_address, commitment.created_at, commitment.expires_at>>

\* this step is a step of a settle call
SettleStep == (last' # last /\ last'.op = "settle") \/ (pc = "transfer" /\ pc' # pc)

\* C26: no step changes the id, owner, rules, principal, asset, created_at or
\* expires_at of a stored commitment; a step of settle changes nothing but the
\* status of the commitment being settled, and no field of any other commitment.
C26_FixedFieldsAndSettleFrame ==
    [][\A k \in DOMAIN core.Commitment \cap DOMAIN core'.Commitment :
          /\ FixedFields(core'.Commitment[k]) = FixedFields(core.Commitment[k])
          /\ SettleStep =>
                 IF k = last'.id
                 THEN core'.Commitment[k] =
                        [core.Commitment[k] EXCEPT !.status = core'.Commitment[k].status]
                 ELSE core'.Commitment[k] = core.Commitment[k]]_vars

\* one of two commitments has been settled and the other is still active
C26_Witness ==
    /\ last.op = "settle"
    /\ last.err = OK
    /\ core.Commitment[last.id].status = "settled"
    /\ \E k \in DOMAIN core.Commitment : k # last.id /\ core.Commitment[k].status = "active"

\* C27: after a successful create_commitment against the certificate contract,
\* the certificate id stored in the commitment is a token the certificate
\* contract holds for that commitment, and the creation event carries that id.
C27_CertificateIdIsMinted ==
    (last.op = "create_commitment" /\ last.err = OK /\ core.NftContract = "commitment_nft")
        => /\ core.Commitment[last.id].nft_token_id \in DOMAIN nft.NFT
           /\ nft.NFT[core.Commitment[last.id].nft_token_id].metadata.commitment_id = last.id
           /\ last.events[1].nft_token_id = core.Commitment[last.id].nft_token_id

\* the Effects of the settle in flight are in storage and the guard is held
EffectsWritten ==
    LET before == frame.pre.core
        asset == before.Commitment[frame.id].asset_address
    IN /\ core.ReentrancyGuard
       /\ core.Commitment[frame.id].status = "settled"
       /\ core.TotalValueLocked = before.TotalValueLocked - frame.settlement_amount
       /\ core.TotalValueLockedByAsset[asset] =
             before.TotalValueLockedByAsset[asset] - frame.settlement_amount

\* C28: when settle reaches its first external call, the asset transfer, the
\* status and both value-locked totals are already written and the guard is held;
\* when it reaches the certificate issuer the transfer has been made and the
\* guard is still held; once the event of a create_commitment or a settle is out
\* the guard is released.
C28_EffectsBeforeInteractions ==
    /\ pc = "transfer" =>
          /\ EffectsWritten
          /\ ext = frame.pre.ext
          /\ nft = frame.pre.nft
    /\ pc = "nft_settle" =>
          /\ EffectsWritten
          /\ PaidOut(frame.id)
          /\ ext.certSettled = frame.pre.ext.certSettled
          /\ nft = frame.pre.nft
    /\ (last.op \in {"create_commitment", "settle"} /\ last.events # NoEvents)
          => ~core.ReentrancyGuard

\* the transfer of a settle has been made and the certificate issuer is next
C28_Witness ==
    /\ pc = "nft_settle"
    /\ EffectsWritten
    /\ PaidOut(frame.id)
    /\ frame.id \notin frame.pre.ext.certSettled
    /\ frame.settlement_amount = 3

\* C30: certificate ids are handed out consecutively from 0: a successful mint
\* returns the number of certificates minted before it, and total_supply is the
\* number of certificates minted.
C30_TokenIdsFromZero ==
    (last.op = "mint" /\ last.err = OK)
        => /\ last.ret = Len(nft.TokenIds) - 1
           /\ total_supply(nft) = Len(nft.TokenIds)

\* the number of certificates in storage whose owner field is the address
OwnedCount(owner) == Cardinality({k \in DOMAIN nft.NFT : nft.NFT[k].owner = owner})

RECURSIVE SumBalances(_)
SumBalances(owners) ==
    IF owners = {} THEN 0
    ELSE LET o == CHOOSE x \in owners : TRUE
         IN balance_of(nft, o) + SumBalances(owners \ {o})

\* C31: for every address, balance_of is the number of certificates owned by the
\* address and the length of get_nfts_by_owner, every certificate returned has
\* that owner, and the balances add up to total_supply.
C31_BalancesMatchOwnership ==
    /\ \A o \in Owners :
          /\ balance_of(nft, o) = OwnedCount(o)
          /\ balance_of(nft, o) = Len(get_nfts_by_owner(nft, o))
          /\ \A j \in 1..Len(get_nfts_by_owner(nft, o)) :
                get_nfts_by_owner(nft, o)[j].owner = o
    /\ SumBalances(Owners) = total_supply(nft)

\* an owner holding two certificates has transferred one of them to itself
C31_Witness ==
    /\ last.op = "transfer"
    /\ last.err = OK
    /\ last.args.from = last.args.to
    /\ balance_of(nft, last.args.from) = 2

\* C32: a transfer from an address that does not own the token fails with
\* NotOwner, a transfer of a token that does not exist fails with TokenNotFound,
\* and neither changes the owner of any token, a balance or a token list.
C32_BadTransferRejected ==
    [][(last' # last /\ last'.op = "transfer") =>
         LET token_id == last'.args.token_id
         IN /\ token_id \notin DOMAIN nft.NFT
                 => last'.err = "TokenNotFound" /\ nft' = nft
            /\ (token_id \in DOMAIN nft.NFT /\ nft.NFT[token_id].owner # last'.args.from)
                 => last'.err = "NotOwner" /\ nft' = nft]_vars

\* an address that does not own an existing certificate tried to transfer it
C32_Witness ==
    /\ last.op = "transfer"
    /\ last.err = "NotOwner"
    /\ last.args.token_id \in DOMAIN nft.NFT
    /\ nft.NFT[last.args.token_id].owner # last.args.from
    /\ balance_of(nft, last.args.from) = 0

\* C33: a certificate settle asked for by an address other than the registered
\* core contract fails and leaves the certificate active.
C33_OnlyCoreSettles ==
    (last.op = "nft_settle" /\ last.args.caller # nft.CoreContract)
        => /\ last.err # OK
           /\ last.args.token_id \in DOMAIN nft.NFT => is_active(nft, last.args.token_id)

\* a direct call of the certificate contract's settle returned in this step
NftSettled == last' # last /\ last'.op = "nft_settle"

\* C34: a certificate is active when minted; a successful settle makes it
\* inactive and no later mint, transfer or settle makes it active again; settle
\* of an inactive certificate fails with AlreadySettled; an active certificate
\* past its expiry is settled whoever owns it by then.
C34_SettledStaysSettled ==
    [][/\ \A k \in DOMAIN nft'.NFT \ DOMAIN nft.NFT : is_active(nft', k)
       /\ \A k \in DOMAIN nft.NFT :
              ~is_active(nft, k) => (k \in DOMAIN nft'.NFT /\ ~is_active(nft', k))
       /\ NftSettled =>
              LET token_id == last'.args.token_id
              IN /\ last'.err = OK => ~is_active(nft', token_id)
                 /\ (token_id \in DOMAIN nft.NFT /\ ~is_active(nft, token_id))
                        => last'.err = "AlreadySettled"
                 /\ (token_id \in DOMAIN nft.NFT /\ is_active(nft, token_id)
                       /\ now >= nft.NFT[token_id].metadata.expires_at)
                        => last'.err = OK]_vars

\* the first certificate was handed to the holder of the second and then settled
C34_Witness ==
    /\ last.op = "nft_settle"
    /\ last.err = OK
    /\ last.args.token_id = 1
    /\ ~is_active(nft, 1)
    /\ nft.OwnerTokens[nft.NFT[1].owner] = <<2, 1>>

C35_InitializeOnce ==
    [][/\ (last' # last /\ last'.op = "initialize") =>
              IF core.Admin = NoAddr
              THEN /\ last'.err = OK
                   /\ core'.Admin = last'.args.admin
                   /\ core'.TotalCommitments = 0
                   /\ core'.TotalValueLocked = 0
              ELSE /\ last'.err = "AlreadyInitialized"
                   /\ World' = World
       /\ (last' # last /\ last'.op = "nft_initialize") =>
              IF nft.Admin = NoAddr
              THEN /\ last'.err = OK
                   /\ nft'.Admin = last'.args.admin
                   /\ total_supply(nft') = 0
              ELSE /\ last'.err = "AlreadyInitialized"
                   /\ World' = World]_vars

\* another address tried to initialize the core after commitments were created
C35_Witness ==
    /\ last.op = "initialize"
    /\ last.err = "AlreadyInitialized"
    /\ last.args.admin # core.Admin
    /\ core.TotalCommitments = 2
    /\ core.TotalValueLocked = 6

\* the topics of the events the last call emitted
Topics == { last.events[j].topic : j \in 1..Len(last.events) }

\* C36: check_violations emits a Violated event exactly when it returns true;
\* get_violation_details emits nothing; a Created event comes only from a
\* successful create_commitment and a Settled event only from a successful settle.
C36_EventsFollowOutcome ==
    /\ last.op = "check_violations" =>
          /\ Topics \subseteq {"Violated"}
          /\ ("Violated" \in Topics) <=> (last.err = OK /\ last.ret = TRUE)
    /\ last.op = "get_violation_details" => last.events = NoEvents
    /\ "Violated" \in Topics => last.op = "check_violations"
    /\ "Created" \in Topics => (last.op = "create_commitment" /\ last.err = OK)
    /\ "Settled" \in Topics => (last.op = "settle" /\ last.err = OK)

\* check_violations on an active commitment past its expiry returned true
C36_Witness ==
    /\ last.op = "check_violations"
    /\ last.ret = TRUE
    /\ Topics = {"Violated"}
    /\ core.Commitment[last.id].status = "active"
    /\ now >= core.Commitment[last.id].expires_at

\* C37: in one and the same state, the has_violations flag of
\* get_violation_details equals the boolean check_violations returns for the
\* same id, whatever the status of the commitment.
C37_DetailsAgreeWithCheck ==
    (last.op = "check_then_get_details" /\ last.err = OK)
        => last.ret.has_violations = last.args.check_ret

\* C38: get_commitment returns a record whose commitment_id is the id asked for,
\* or fails with CommitmentNotFound; it never returns another commitment's record.
C38_GetCommitmentReturnsRequested ==
    last.op = "get_commitment" =>
        IF last.err = OK
        THEN last.ret.commitment_id = last.id
        ELSE last.err = "CommitmentNotFound"

\* C39: every stored commitment is active or settled, and its current_value is
\* its principal: no operation stores another status or another value.
C39_ActiveOrSettledAtPrincipal ==
    \A k \in DOMAIN core.Commitment :
        /\ core.Commitment[k].status \in {"active", "settled"}
        /\ core.Commitment[k].current_value = core.Commitment[k].amount

\* early_exit has returned successfully for a commitment that is past its expiry,
\* beside one that is settled
C39_Witness ==
    /\ last.op = "early_exit"
    /\ last.err = OK
    /\ \E k \in DOMAIN core.Commitment :
          /\ core.Commitment[k].status = "active"
          /\ now >= core.Commitment[k].expires_at
    /\ \E k \in DOMAIN core.Commitment : core.Commitment[k].status = "settled"

====
